---- MODULE Spec2Model ----
(***************************************************************************)
(* A model of the bassert crate (src/src/lib.rs): the macros bassert!,     *)
(* debug_bassert! and bassert_internal!, and the two failure reporters     *)
(* internal::bassert_failed and internal::bassert_match_failed.            *)
(*                                                                         *)
(* A program is a sequence of check statements.  Each statement is the     *)
(* expansion of one macro invocation and is executed step by step: bind    *)
(* the left operand, bind the right operand, test, and on failure evaluate *)
(* the custom-message arguments and call the reporter, which panics.       *)
(*                                                                         *)
(* Texts.  The panic messages contain the character U+0060 (backtick).  A  *)
(* text is represented by the sequence of its segments between backticks:  *)
(* a text with k backticks is a sequence of k+1 backtick-free strings.     *)
(* This representation is one-to-one, so equality of texts is equality of  *)
(* the byte strings they stand for.                                        *)
(***************************************************************************)
EXTENDS Integers, Sequences, FiniteSets, TLC

VARIABLES
    debug_assertions, \* build configuration: cfg!(debug_assertions)
    pc,               \* "idle" | "running" | "panicked" | "build_error"
    call,             \* the macro invocation being executed (NoCall before the first)
    ip,               \* position in the expansion of the invocation
    lhsVal,           \* the value bound to `lhs` by the match on (&$lhs_expr, &$rhs_expr)
    rhsVal,           \* the value bound to `rhs`
    cond,             \* the value of $expr / of the `if let`: "unknown" | "true" | "false"
    args,             \* the Option<fmt::Arguments> built for the reporter
    evals,            \* how often each operand / the message arguments were evaluated
    ctr,              \* the counter the side-effecting operands increment
    reports,          \* number of calls of the reporters so far
    panicMsg,         \* the panic payload (a text), NoText while there is none
    passed,           \* number of check statements that returned normally
    ctr0              \* the counter when the current statement began

vars == <<debug_assertions, pc, call, ip, lhsVal, rhsVal, cond, args, evals, ctr,
          reports, panicMsg, passed, ctr0>>

\* Number of check statements a program executes.
MaxChecks == 2

----------------------------------------------------------------------------
(* Texts *)

Lit(s) == <<s>>

\* The one-character text U+0060.
Tick == <<"", "">>

\* Concatenation of two texts: the last segment of a joins the first of b.
Cat(a, b) == SubSeq(a, 1, Len(a) - 1) \o <<a[Len(a)] \o b[1]>> \o SubSeq(b, 2, Len(b))

NoText == <<>>

----------------------------------------------------------------------------
(* Values and their renderings *)

IntV(k)  == [tag |-> "int",  n |-> k, s |-> ""]
StrV(t)  == [tag |-> "str",  n |-> 0, s |-> t]
NoneV    == [tag |-> "None", n |-> 0, s |-> ""]
SomeV(k) == [tag |-> "Some", n |-> k, s |-> ""]
Unbound  == [tag |-> "unbound", n |-> 0, s |-> ""]

Digit == <<"0", "1", "2", "3", "4", "5", "6", "7", "8", "9">>

\* <i64 as fmt::Display>::fmt for a non-negative value: its decimal digits.
RECURSIVE DisplayInt(_)
DisplayInt(k) ==
    IF k < 10 THEN Digit[k + 1] ELSE DisplayInt(k \div 10) \o Digit[(k % 10) + 1]

\* {:?}: integers render as their digits, Option by its derived Debug.
DebugFmt(v) ==
    CASE v.tag = "int"  -> Lit(DisplayInt(v.n))
      [] v.tag = "None" -> Lit("None")
      [] v.tag = "Some" -> Lit("Some(" \o DisplayInt(v.n) \o ")")
      [] v.tag = "str"  -> Lit("\"" \o v.s \o "\"")

\* {}: integers render as their digits, &str as its characters.
DisplayFmt(v) ==
    CASE v.tag = "int" -> Lit(DisplayInt(v.n))
      [] v.tag = "str" -> Lit(v.s)

\* format_args!/panic!: the literal pieces of the format string with the
\* rendered arguments between them.
RECURSIVE Format(_, _)
Format(pieces, rendered) ==
    IF rendered = <<>> THEN Head(pieces)
    ELSE Cat(Head(pieces), Cat(Head(rendered), Format(Tail(pieces), Tail(rendered))))

----------------------------------------------------------------------------
(* The inputs: the operand expressions, patterns and messages of the tests *)

\* The `let` bindings the tests check against.
Env(name) ==
    CASE name = "smaller" -> IntV(2)
      [] name = "larger"  -> IntV(3)
      [] name = "foo"     -> IntV(42)
      [] name = "bar"     -> IntV(42)
      [] name = "val"     -> SomeV(100)
      [] name = "absent"  -> NoneV

Var(name)   == [src |-> name, kind |-> "var"]
Probe(name) == [src |-> name, kind |-> "probe"]
Pat(name)   == [src |-> name, kind |-> "pat"]

\* Operands of the comparison forms: variables, and the parenthesised call
\* (bump()), which increments the counter and yields its new value.
IntOperands == {Var("smaller"), Var("larger"), Var("foo"), Var("bar"), Probe("(bump())")}

\* Operands of the pattern-match form: Option variables, and the call (take()),
\* which increments the counter and yields Some(counter) when it is odd.
OptOperands == {Var("val"), Var("absent"), Probe("(take())")}

Patterns == {Pat("None"), Pat("Some(_)"), Pat("Some(100)"), Pat("_")}

CmpOps == {"==", "!=", ">", "<", ">=", "<="}

\* The optional trailing format string and arguments.
NoMsg    == [fmt |-> "none", pieces |-> <<>>, arg |-> Var("-")]
MsgLit   == [fmt |-> "lit",
             pieces |-> <<Lit("it is broken, because "), Lit("")>>,
             arg |-> [src |-> "\"foo\"", kind |-> "str"]]
MsgProbe == [fmt |-> "probe",
             pieces |-> <<Lit("seen "), Lit(" so far")>>,
             arg |-> Probe("bump()")]
Msgs == {NoMsg, MsgLit, MsgProbe}

Invocations(macro) ==
    {[macro |-> macro, lhs |-> l, op |-> o, rhs |-> r, msg |-> m] :
        l \in IntOperands, o \in CmpOps, r \in IntOperands, m \in Msgs}
    \cup
    {[macro |-> macro, lhs |-> p, op |-> "=", rhs |-> r, msg |-> m] :
        p \in Patterns, r \in OptOperands, m \in Msgs}

NoCall == [macro |-> "none", lhs |-> Var("-"), op |-> "-", rhs |-> Var("-"), msg |-> NoMsg]

\* Evaluating an operand expression with the counter at c: the value and the
\* counter afterwards.
EvalOperand(e, c) ==
    CASE e.kind = "var" -> [val |-> Env(e.src), ctr |-> c]
      [] e.kind = "str" -> [val |-> StrV("foo"), ctr |-> c]
      [] e.kind = "probe" /\ e.src = "(take())" ->
            [val |-> IF (c + 1) % 2 = 1 THEN SomeV(c + 1) ELSE NoneV, ctr |-> c + 1]
      [] e.kind = "probe" /\ e.src # "(take())" ->
            [val |-> IntV(c + 1), ctr |-> c + 1]

\* `if let $lhs = rhs`: does the value have the pattern's shape.
Matches(pat, v) ==
    CASE pat = "None"      -> v.tag = "None"
      [] pat = "Some(_)"   -> v.tag = "Some"
      [] pat = "Some(100)" -> v.tag = "Some" /\ v.n = 100
      [] pat = "_"         -> TRUE

----------------------------------------------------------------------------
(* The macros *)

\* A variant of the arms in which the >= arm tests `lhs > rhs`.
BassertArm_GteTestsGt(op) ==
    CASE op = ">"  -> [kind |-> "Gt",  expr |-> "lhs > rhs"]
      [] op = "<"  -> [kind |-> "Lt",  expr |-> "lhs < rhs"]
      [] op = ">=" -> [kind |-> "Gte", expr |-> "lhs > rhs"]
      [] op = "<=" -> [kind |-> "Lte", expr |-> "lhs <= rhs"]
      [] op = "==" -> [kind |-> "Eq",  expr |-> "lhs == rhs"]
      [] op = "!=" -> [kind |-> "Ne",  expr |-> "lhs != rhs"]

\* A variant of the arms in which the <= arm passes BassertKind::Lt.
BassertArm_LtePassesLt(op) ==
    CASE op = ">"  -> [kind |-> "Gt",  expr |-> "lhs > rhs"]
      [] op = "<"  -> [kind |-> "Lt",  expr |-> "lhs < rhs"]
      [] op = ">=" -> [kind |-> "Gte", expr |-> "lhs >= rhs"]
      [] op = "<=" -> [kind |-> "Lt",  expr |-> "lhs <= rhs"]
      [] op = "==" -> [kind |-> "Eq",  expr |-> "lhs == rhs"]
      [] op = "!=" -> [kind |-> "Ne",  expr |-> "lhs != rhs"]

\* macro_rules! bassert, comparison arms: the BassertKind and the $expr each
\* arm hands to bassert_internal! for the operator token written.
BassertArm(op) ==
    CASE op = ">"  -> [kind |-> "Gt",  expr |-> "lhs > rhs"]
      [] op = "<"  -> [kind |-> "Lt",  expr |-> "lhs < rhs"]
      [] op = ">=" -> [kind |-> "Gte", expr |-> "lhs >= rhs"]
      [] op = "<=" -> [kind |-> "Lte", expr |-> "lhs <= rhs"]
      [] op = "==" -> [kind |-> "Eq",  expr |-> "lhs == rhs"]
      [] op = "!=" -> [kind |-> "Ne",  expr |-> "lhs != rhs"]

\* $expr on the two bound references: the operand type's own comparison.
EvalExpr(expr, l, r) ==
    CASE expr = "lhs > rhs"  -> l.n > r.n
      [] expr = "lhs < rhs"  -> l.n < r.n
      [] expr = "lhs >= rhs" -> l.n >= r.n
      [] expr = "lhs <= rhs" -> l.n <= r.n
      [] expr = "lhs == rhs" -> l.n = r.n
      [] expr = "lhs != rhs" -> l.n # r.n

\* A variant whose failure branch evaluates the operand expressions again to
\* render them.
BassertInternal_ReEvaluates(hasArgs) ==
    <<"lhs", "rhs", "test", "lhs", "rhs">> \o
    (IF hasArgs THEN <<"format_args", "bassert_failed">> ELSE <<"bassert_failed">>)

\* A variant that builds the Option<Arguments> before the test.
BassertInternal_EagerArgs(hasArgs) ==
    IF hasArgs THEN <<"lhs", "rhs", "format_args", "test", "bassert_failed">>
    ELSE <<"lhs", "rhs", "test", "bassert_failed">>

\* A variant whose scrutinee is (&$rhs_expr, &$lhs_expr).
BassertInternal_RhsFirst(hasArgs) ==
    <<"rhs", "lhs", "test">> \o
    (IF hasArgs THEN <<"format_args", "bassert_failed">> ELSE <<"bassert_failed">>)

\* macro_rules! bassert_internal: match (&$lhs_expr, &$rhs_expr) binds the left
\* operand, then the right; `if !$expr` tests; the failure branch builds the
\* Option<Arguments> (format_args! only in the arm with $($arg)+) and calls
\* bassert_failed.
BassertInternal(hasArgs) ==
    <<"lhs", "rhs", "test">> \o
    (IF hasArgs THEN <<"format_args", "bassert_failed">> ELSE <<"bassert_failed">>)

\* macro_rules! bassert, pattern arms: match &$rhs binds the operand, `if let`
\* tests, the else branch calls bassert_match_failed.
BassertPattern(hasArgs) ==
    <<"rhs", "if_let">> \o
    (IF hasArgs THEN <<"format_args", "bassert_match_failed">>
     ELSE <<"bassert_match_failed">>)

\* macro_rules! bassert: the expansion of one invocation.
Bassert(op, hasArgs) ==
    IF op = "="
    THEN [builds |-> TRUE, kind |-> "-", expr |-> "if let",
          steps |-> BassertPattern(hasArgs)]
    ELSE [builds |-> TRUE, kind |-> BassertArm(op).kind, expr |-> BassertArm(op).expr,
          steps |-> BassertInternal(hasArgs)]

\* The macros a path `$crate::name!` can name: those the crate root defines
\* with #[macro_export].
CrateRootMacros == {"bassert", "debug_bassert", "bassert_internal"}

\* macro_rules! debug_bassert: `if $crate::cfg!(debug_assertions) { $crate::bassert!(..); }`.
\* The expansion builds only if both paths resolve in the crate root.
DebugBassert(op, hasArgs, dbg) ==
    IF ~({"cfg", "bassert"} \subseteq CrateRootMacros)
    THEN [builds |-> FALSE, kind |-> "-", expr |-> "-", steps |-> <<>>]
    ELSE IF dbg THEN Bassert(op, hasArgs)
    ELSE [builds |-> TRUE, kind |-> "-", expr |-> "-", steps |-> <<>>]

----------------------------------------------------------------------------
(* The reporters *)

NoArgs      == [some |-> FALSE, text |-> Lit("")]
SomeArgs(t) == [some |-> TRUE, text |-> t]

\* bassert_failed: `let op = match kind { .. }`.
OpSymbol(kind) ==
    CASE kind = "Eq"    -> "=="
      [] kind = "Ne"    -> "!="
      [] kind = "Gt"    -> ">"
      [] kind = "Lt"    -> "<"
      [] kind = "Gte"   -> ">="
      [] kind = "Lte"   -> "<="
      [] kind = "Match" -> "="

BassertKinds == {"Eq", "Ne", "Gt", "Lt", "Gte", "Lte", "Match"}

\* A variant without the comma after the first value line.
BassertFailed_NoComma(kind, lhs_expr, rhs_expr, lhs, rhs, a) ==
    LET op == Lit(OpSymbol(kind))
        common == <<<<"assertion failed: ", "">>, Lit(" "), Lit(" "), <<"", "\n">>,
                    <<": ", "">>, <<"", "\n">>, <<": ", "">>>>
    IN  IF a.some
        THEN Format(common \o <<<<"", ": ">>, Lit("")>>,
                    <<Lit(lhs_expr), op, Lit(rhs_expr), Lit(lhs_expr), DebugFmt(lhs),
                      Lit(rhs_expr), DebugFmt(rhs), a.text>>)
        ELSE Format(common \o <<<<"", "">>>>,
                    <<Lit(lhs_expr), op, Lit(rhs_expr), Lit(lhs_expr), DebugFmt(lhs),
                      Lit(rhs_expr), DebugFmt(rhs)>>)

\* A variant in which a custom message replaces the value lines.
BassertFailed_MessageReplaces(kind, lhs_expr, rhs_expr, lhs, rhs, a) ==
    LET op == Lit(OpSymbol(kind))
        common == <<<<"assertion failed: ", "">>, Lit(" "), Lit(" "), <<"", "\n">>,
                    <<": ", "">>, <<"", ",\n">>, <<": ", "">>>>
    IN  IF a.some
        THEN Format(<<<<"assertion failed: ", "">>, Lit(" "), Lit(" "), <<"", ": ">>, Lit("")>>,
                    <<Lit(lhs_expr), op, Lit(rhs_expr), a.text>>)
        ELSE Format(common \o <<<<"", "">>>>,
                    <<Lit(lhs_expr), op, Lit(rhs_expr), Lit(lhs_expr), DebugFmt(lhs),
                      Lit(rhs_expr), DebugFmt(rhs)>>)

\* bassert_failed: the panic message.  The pieces are the raw string literals
\* of the two panic! calls, split at their backticks.
BassertFailed(kind, lhs_expr, rhs_expr, lhs, rhs, a) ==
    LET op == Lit(OpSymbol(kind))
        common == <<<<"assertion failed: ", "">>, Lit(" "), Lit(" "), <<"", "\n">>,
                    <<": ", "">>, <<"", ",\n">>, <<": ", "">>>>
    IN  IF a.some
        THEN Format(common \o <<<<"", ": ">>, Lit("")>>,
                    <<Lit(lhs_expr), op, Lit(rhs_expr), Lit(lhs_expr), DebugFmt(lhs),
                      Lit(rhs_expr), DebugFmt(rhs), a.text>>)
        ELSE Format(common \o <<<<"", "">>>>,
                    <<Lit(lhs_expr), op, Lit(rhs_expr), Lit(lhs_expr), DebugFmt(lhs),
                      Lit(rhs_expr), DebugFmt(rhs)>>)

\* A variant that labels the value line with the pattern text.
BassertMatchFailed_LabelsPattern(pattern, rhs_expr, rhs, a) ==
    LET common == <<<<"assertion failed: ", "">>, Lit(" = "), <<"", "\n">>, <<": ", "">>>>
    IN  IF a.some
        THEN Format(common \o <<<<"", ": ">>, Lit("")>>,
                    <<Lit(pattern), Lit(rhs_expr), Lit(pattern), DebugFmt(rhs), a.text>>)
        ELSE Format(common \o <<<<"", "">>>>,
                    <<Lit(pattern), Lit(rhs_expr), Lit(pattern), DebugFmt(rhs)>>)

\* bassert_match_failed: the panic message.
BassertMatchFailed(pattern, rhs_expr, rhs, a) ==
    LET common == <<<<"assertion failed: ", "">>, Lit(" = "), <<"", "\n">>, <<": ", "">>>>
    IN  IF a.some
        THEN Format(common \o <<<<"", ": ">>, Lit("")>>,
                    <<Lit(pattern), Lit(rhs_expr), Lit(rhs_expr), DebugFmt(rhs), a.text>>)
        ELSE Format(common \o <<<<"", "">>>>,
                    <<Lit(pattern), Lit(rhs_expr), Lit(rhs_expr), DebugFmt(rhs)>>)

----------------------------------------------------------------------------
(* Execution *)

HasArgs(c) == c.msg.fmt # "none"

\* The expansion of the invocation being executed.
Expansion ==
    IF call.macro = "debug_bassert"
    THEN DebugBassert(call.op, HasArgs(call), debug_assertions)
    ELSE Bassert(call.op, HasArgs(call))

\* The step of the expansion that executes next.
Step == IF ip <= Len(Expansion.steps) THEN Expansion.steps[ip] ELSE "end"

NoEvals == [lhs |-> 0, rhs |-> 0, args |-> 0]

Init ==
    /\ debug_assertions \in BOOLEAN
    /\ pc = "idle"
    /\ call = NoCall
    /\ ip = 1
    /\ lhsVal = Unbound
    /\ rhsVal = Unbound
    /\ cond = "unknown"
    /\ args = NoArgs
    /\ evals = NoEvals
    /\ ctr = 0
    /\ ctr0 = 0
    /\ reports = 0
    /\ panicMsg = NoText
    /\ passed = 0

\* Control reaches the statement inv, whose expansion begins to execute.
Enter(inv) ==
    /\ pc' = "running"
    /\ call' = inv
    /\ ip' = 1
    /\ lhsVal' = Unbound
    /\ rhsVal' = Unbound
    /\ cond' = "unknown"
    /\ args' = NoArgs
    /\ evals' = NoEvals
    /\ ctr0' = ctr
    /\ UNCHANGED <<debug_assertions, ctr, reports, panicMsg, passed>>

\* A bassert!(..) statement is reached.
InvokeBassert ==
    /\ pc = "idle"
    /\ passed < MaxChecks
    /\ \E inv \in Invocations("bassert") : Enter(inv)

\* A debug_bassert!(..) statement.  If its expansion does not build there is
\* no program: nothing has run and nothing will.  If it builds and the gate
\* is closed the statement is empty and control passes it at once.
InvokeDebugBassert ==
    /\ pc = "idle"
    /\ passed < MaxChecks
    /\ \E inv \in Invocations("debug_bassert") :
          LET e == DebugBassert(inv.op, HasArgs(inv), debug_assertions) IN
          IF ~e.builds
          THEN /\ call = NoCall
               /\ pc' = "build_error"
               /\ call' = inv
               /\ UNCHANGED <<debug_assertions, ip, lhsVal, rhsVal, cond, args, evals,
                              ctr, ctr0, reports, panicMsg, passed>>
          ELSE IF e.steps = <<>>
          THEN /\ call' = inv
               /\ passed' = passed + 1
               /\ ip' = 1
               /\ lhsVal' = Unbound
               /\ rhsVal' = Unbound
               /\ cond' = "unknown"
               /\ args' = NoArgs
               /\ evals' = NoEvals
               /\ ctr0' = ctr
               /\ UNCHANGED <<debug_assertions, pc, ctr, reports, panicMsg>>
          ELSE Enter(inv)

\* &$lhs_expr in the scrutinee of the match.
BindLhs ==
    /\ pc = "running"
    /\ Step = "lhs"
    /\ LET r == EvalOperand(call.lhs, ctr) IN
          /\ lhsVal' = r.val
          /\ ctr' = r.ctr
    /\ evals' = [evals EXCEPT !.lhs = @ + 1]
    /\ ip' = ip + 1
    /\ UNCHANGED <<debug_assertions, pc, call, rhsVal, cond, args, ctr0, reports,
                   panicMsg, passed>>

\* &$rhs_expr (comparison arms) or &$rhs (pattern arms).
BindRhs ==
    /\ pc = "running"
    /\ Step = "rhs"
    /\ LET r == EvalOperand(call.rhs, ctr) IN
          /\ rhsVal' = r.val
          /\ ctr' = r.ctr
    /\ evals' = [evals EXCEPT !.rhs = @ + 1]
    /\ ip' = ip + 1
    /\ UNCHANGED <<debug_assertions, pc, call, lhsVal, cond, args, ctr0, reports,
                   panicMsg, passed>>

\* The statement returns normally when the condition held, and otherwise
\* control enters the failure branch.
Branch(holds) ==
    /\ cond' = IF holds THEN "true" ELSE "false"
    /\ IF holds
       THEN /\ pc' = "idle"
            /\ passed' = passed + 1
            /\ ip' = ip
       ELSE /\ ip' = ip + 1
            /\ UNCHANGED <<pc, passed>>
    /\ UNCHANGED <<debug_assertions, call, lhsVal, rhsVal, args, evals, ctr, ctr0,
                   reports, panicMsg>>

\* `if !$expr { .. }`.
Test ==
    /\ pc = "running"
    /\ Step = "test"
    /\ Branch(EvalExpr(Expansion.expr, lhsVal, rhsVal))

\* `if let $lhs = rhs { } else { .. }`.
IfLet ==
    /\ pc = "running"
    /\ Step = "if_let"
    /\ Branch(Matches(call.lhs.src, rhsVal))

\* ::std::option::Option::Some(::std::format_args!($($arg)+)): the argument
\* expressions are evaluated here.
FormatArgs ==
    /\ pc = "running"
    /\ Step = "format_args"
    /\ LET r == EvalOperand(call.msg.arg, ctr) IN
          /\ args' = SomeArgs(Format(call.msg.pieces, <<DisplayFmt(r.val)>>))
          /\ ctr' = r.ctr
    /\ evals' = [evals EXCEPT !.args = @ + 1]
    /\ ip' = ip + 1
    /\ UNCHANGED <<debug_assertions, pc, call, lhsVal, rhsVal, cond, ctr0, reports,
                   panicMsg, passed>>

\* A variant in which the reporter prints the message and returns.
Panic_Returns(msg) ==
    /\ pc' = "idle"
    /\ passed' = passed + 1
    /\ panicMsg' = msg
    /\ reports' = reports + 1
    /\ UNCHANGED <<debug_assertions, call, ip, lhsVal, rhsVal, cond, args, evals, ctr,
                   ctr0>>

\* A reporter is called and panics with msg: it has type `-> !`.
Panic(msg) ==
    /\ pc' = "panicked"
    /\ panicMsg' = msg
    /\ reports' = reports + 1
    /\ UNCHANGED <<debug_assertions, call, ip, lhsVal, rhsVal, cond, args, evals, ctr,
                   ctr0, passed>>

\* $crate::internal::bassert_failed(kind, stringify!($lhs_expr),
\* stringify!($rhs_expr), &*lhs, &*rhs, args).
CallBassertFailed ==
    /\ pc = "running"
    /\ Step = "bassert_failed"
    /\ Panic(BassertFailed(Expansion.kind, call.lhs.src, call.rhs.src, lhsVal, rhsVal, args))

\* $crate::internal::bassert_match_failed(stringify!($lhs), stringify!($rhs), &*rhs, args).
CallBassertMatchFailed ==
    /\ pc = "running"
    /\ Step = "bassert_match_failed"
    /\ Panic(BassertMatchFailed(call.lhs.src, call.rhs.src, rhsVal, args))

Next ==
    \/ InvokeBassert
    \/ InvokeDebugBassert
    \/ BindLhs
    \/ BindRhs
    \/ Test
    \/ IfLet
    \/ FormatArgs
    \/ CallBassertFailed
    \/ CallBassertMatchFailed

Spec == Init /\ [][Next]_vars

----------------------------------------------------------------------------
(* Vocabulary of the properties *)

IsBassert == call.macro = "bassert"
IsCmp     == call.op \in CmpOps
IsPattern == call.op = "="

\* The statement has finished: it returned normally or it panicked.
Finished == call # NoCall /\ pc \in {"idle", "panicked"}

\* The relation the operator token denotes on the integers.
Rel(op, a, b) ==
    CASE op = "==" -> a = b
      [] op = "!=" -> a # b
      [] op = ">"  -> a > b
      [] op = "<"  -> a < b
      [] op = ">=" -> ~(a < b)
      [] op = "<=" -> ~(a > b)

\* Number of operands of the statement that increment the counter.
ProbeOperands ==
    (IF IsCmp /\ call.lhs.kind = "probe" THEN 1 ELSE 0)
    + (IF call.rhs.kind = "probe" THEN 1 ELSE 0)

\* The Debug rendering of the values the tests use, written out.
Shown(v) ==
    CASE v = IntV(2)     -> "2"
      [] v = IntV(3)     -> "3"
      [] v = IntV(42)    -> "42"
      [] v = SomeV(100)  -> "Some(100)"
      [] v = NoneV       -> "None"
      [] v.tag = "int" /\ v.n < 10 /\ v.n \notin {2, 3} -> Digit[v.n + 1]
      [] v.tag = "Some" /\ v.n < 10 -> "Some(" \o Digit[v.n + 1] \o ")"
      [] OTHER -> "?"

\* The standard message of a failed comparison, as a text split at backticks.
StandardMsg(lhs_src, op, rhs_src, l, r) ==
    << "assertion failed: ",
       lhs_src \o " " \o op \o " " \o rhs_src,
       "\n" \o lhs_src \o ": ",
       Shown(l),
       ",\n" \o rhs_src \o ": ",
       Shown(r),
       "" >>

\* The standard message of a failed pattern match.
StandardMatchMsg(pat_src, rhs_src, r) ==
    << "assertion failed: ",
       pat_src \o " = " \o rhs_src,
       "\n" \o rhs_src \o ": ",
       Shown(r),
       "" >>

\* The formatted custom message of the statement, given the counter value the
\* message argument saw.
CustomMsg(m, seen) ==
    CASE m.fmt = "lit"   -> "it is broken, because foo"
      [] m.fmt = "probe" -> "seen " \o Digit[seen + 1] \o " so far"

\* A text with the string t appended.
Appended(text, t) == [text EXCEPT ![Len(text)] = @ \o t]

----------------------------------------------------------------------------
(* Properties *)

\* C1: for each of the six comparison operators, once the operands are bound
\* and the test is made, if the written relation holds of the operand values
\* then bassert! has returned normally: no reporter was called, there is no
\* panic, no message and no custom message was built.
C1_HoldingRelationReturnsNormally ==
    (IsBassert /\ IsCmp /\ cond # "unknown" /\ Rel(call.op, lhsVal.n, rhsVal.n))
    => /\ pc = "idle"
       /\ cond = "true"
       /\ reports = 0
       /\ panicMsg = NoText
       /\ args = NoArgs

C1_Witness ==
    /\ IsBassert /\ call.op = ">=" /\ HasArgs(call)
    /\ pc = "idle" /\ cond = "true"
    /\ lhsVal = IntV(3) /\ rhsVal = IntV(3)

\* C2: for each of the six comparison operators, a bassert! without custom
\* message whose relation does not hold of the operand values ends in a panic
\* whose message is exactly the standard message: the expression, then the
\* left operand's source text and Debug rendering followed by a comma, then
\* the right operand's.
C2_FailureMessage ==
    (IsBassert /\ IsCmp /\ ~HasArgs(call) /\ cond # "unknown"
        /\ ~Rel(call.op, lhsVal.n, rhsVal.n))
    => /\ pc \in {"running", "panicked"}
       /\ cond = "false"
       /\ pc = "running" => Step = "bassert_failed"
       /\ pc = "panicked" =>
            /\ panicMsg = StandardMsg(call.lhs.src, call.op, call.rhs.src, lhsVal, rhsVal)
            /\ (call.lhs.src = "smaller" /\ call.op = ">" /\ call.rhs.src = "larger")
                 => panicMsg = <<"assertion failed: ", "smaller > larger",
                                 "\nsmaller: ", "2", ",\nlarger: ", "3", "">>
            /\ (call.lhs.src = "foo" /\ call.op = "!=" /\ call.rhs.src = "bar")
                 => panicMsg = <<"assertion failed: ", "foo != bar",
                                 "\nfoo: ", "42", ",\nbar: ", "42", "">>

C2_Witness ==
    /\ IsBassert /\ ~HasArgs(call) /\ pc = "panicked"
    /\ call.lhs.src = "foo" /\ call.op = "!=" /\ call.rhs.src = "bar"

\* C3: in every bassert! (comparison or pattern form, with or without custom
\* message, passing or failing) no operand is ever evaluated twice, and when
\* the statement has finished each operand has been evaluated exactly once:
\* the counter has grown by one per counter-incrementing operand (plus one if
\* a counter-incrementing message argument was evaluated), and the value shown
\* in a failure message is the value of that one evaluation.
C3_OperandsEvaluatedOnce ==
    IsBassert =>
    /\ evals.lhs <= 1 /\ evals.rhs <= 1
    /\ Finished =>
         /\ evals.rhs = 1
         /\ evals.lhs = (IF IsCmp THEN 1 ELSE 0)
         /\ ctr = ctr0 + ProbeOperands
                  + (IF evals.args > 0 /\ call.msg.arg.kind = "probe" THEN 1 ELSE 0)
         /\ (pc = "panicked" /\ IsCmp /\ call.lhs.kind = "probe")
              => /\ lhsVal = IntV(ctr0 + 1)
                 /\ panicMsg[4] = Digit[ctr0 + 2]
         /\ (pc = "panicked" /\ call.rhs.kind = "probe" /\ call.rhs.src = "(bump())")
              => /\ rhsVal = IntV(ctr0 + ProbeOperands)
                 /\ panicMsg[6] = Digit[ctr0 + ProbeOperands + 1]

C3_Witness ==
    /\ IsBassert /\ pc = "panicked" /\ passed = 1
    /\ call.lhs.kind = "probe" /\ call.rhs.kind = "probe" /\ call.op = ">"
    /\ ctr = ctr0 + 2

\* C4: the custom-message arguments are evaluated only on the failure path: at
\* most once, never when the condition held (then the counter has grown by the
\* operands' increments only), and only after the operands were evaluated and
\* the condition was found false.
C4_MessageArgumentsLazy ==
    IsBassert =>
    /\ evals.args <= 1
    /\ cond = "true" =>
         /\ evals.args = 0
         /\ args = NoArgs
         /\ ctr = ctr0 + ProbeOperands
    /\ evals.args = 1 =>
         /\ cond = "false"
         /\ evals.rhs = 1
         /\ IsCmp => evals.lhs = 1
    /\ cond = "unknown" => evals.args = 0

C4_Witness ==
    /\ IsBassert /\ pc = "idle" /\ cond = "true"
    /\ call.msg = MsgProbe /\ call.rhs.kind = "probe"
    /\ evals.args = 0 /\ ctr = ctr0 + 1


\* C5: when a failing bassert! has a custom message, for all six comparison
\* operators and for the pattern form, the panic message is the standard
\* message of the same failing check followed, on the line of the last value,
\* by ": " and the formatted custom message; the standard message is not
\* replaced.
C5_CustomMessageAppended ==
    (IsBassert /\ pc = "panicked" /\ HasArgs(call)) =>
    /\ IsCmp =>
         panicMsg = Appended(
             StandardMsg(call.lhs.src, call.op, call.rhs.src, lhsVal, rhsVal),
             ": " \o CustomMsg(call.msg, ctr))
    /\ IsPattern =>
         panicMsg = Appended(
             StandardMatchMsg(call.lhs.src, call.rhs.src, rhsVal),
             ": " \o CustomMsg(call.msg, ctr))
    /\ (call.lhs.src = "smaller" /\ call.op = ">" /\ call.rhs.src = "larger"
          /\ call.msg = MsgLit)
         => panicMsg = <<"assertion failed: ", "smaller > larger", "\nsmaller: ", "2",
                         ",\nlarger: ", "3", ": it is broken, because foo">>

C5_Witness ==
    /\ IsBassert /\ pc = "panicked" /\ call.msg = MsgProbe /\ IsCmp
    /\ call.lhs.kind = "probe" /\ call.rhs.src = "larger" /\ call.op = "=="

\* C6: in the pattern form, once the operand is bound and the match is tested:
\* if the value has the pattern's shape the check has returned normally
\* without panic; if not, the check ends in a panic whose message (without a
\* custom message) names the pattern text, the symbol =, the operand's source
\* text and the operand's Debug rendering.
C6_PatternForm ==
    (IsBassert /\ IsPattern /\ cond # "unknown") =>
    LET shape == CASE call.lhs.src = "None"      -> rhsVal = NoneV
                   [] call.lhs.src = "Some(_)"   -> rhsVal # NoneV
                   [] call.lhs.src = "Some(100)" -> rhsVal = SomeV(100)
                   [] call.lhs.src = "_"         -> TRUE
    IN  /\ shape => (pc = "idle" /\ reports = 0 /\ panicMsg = NoText)
        /\ ~shape =>
             /\ pc \in {"running", "panicked"}
             /\ (pc = "panicked" /\ ~HasArgs(call)) =>
                  /\ panicMsg = StandardMatchMsg(call.lhs.src, call.rhs.src, rhsVal)
                  /\ (call.lhs.src = "None" /\ call.rhs.src = "val")
                       => panicMsg = <<"assertion failed: ", "None = val", "\nval: ",
                                       "Some(100)", "">>

C6_Witness ==
    /\ IsBassert /\ pc = "panicked" /\ ~HasArgs(call)
    /\ call.lhs.src = "None" /\ call.rhs.src = "val"

\* C7: a debug_bassert! statement ends as the same bassert! statement does
\* when debug_assertions is enabled (operands evaluated once, panic exactly
\* when the condition is false, same message), and when debug_assertions is
\* disabled it evaluates nothing, does not panic and changes no state.
C7_DebugGate ==
    (call.macro = "debug_bassert" /\ pc # "running") =>
    IF debug_assertions
    THEN /\ pc \in {"idle", "panicked"}
         /\ evals.rhs = 1
         /\ evals.lhs = (IF IsCmp THEN 1 ELSE 0)
         /\ (pc = "panicked") <=> (cond = "false")
         /\ pc = "panicked" =>
              panicMsg = IF IsCmp
                         THEN BassertFailed(BassertArm(call.op).kind, call.lhs.src,
                                            call.rhs.src, lhsVal, rhsVal, args)
                         ELSE BassertMatchFailed(call.lhs.src, call.rhs.src, rhsVal, args)
    ELSE /\ pc = "idle"
         /\ evals = NoEvals
         /\ ctr = ctr0
         /\ panicMsg = NoText

\* C8: in any sequence of bassert! checks a reporter is called if and only if
\* the check's comparison or match was false, and it never returns: after the
\* call the program is panicked for good, and control is past a check only if
\* its condition held.
C8_ReporterIffFalseAndNoReturn ==
    (call = NoCall \/ IsBassert) =>
    /\ reports = (IF pc = "panicked" THEN 1 ELSE 0)
    /\ pc = "panicked" => (cond = "false" /\ panicMsg # NoText)
    /\ (cond = "false" /\ pc # "panicked")
         => (pc = "running" /\ Step \in {"format_args", "bassert_failed",
                                         "bassert_match_failed"})
    /\ (pc = "idle" /\ call # NoCall) => cond = "true"

C8_Witness ==
    IsBassert /\ pc = "panicked" /\ passed = 1 /\ reports = 1 /\ cond = "false"

\* C9: operator dispatch is consistent.  For each comparison operator written,
\* the arm's test is that operator's relation on the operand values, the
\* BassertKind it passes displays as that operator, and the failure message
\* shows that operator; the seven BassertKind values display as seven pairwise
\* distinct symbols ==, !=, >, <, >=, <=, =.
C9_DispatchConsistent ==
    /\ \A k1, k2 \in BassertKinds : OpSymbol(k1) = OpSymbol(k2) => k1 = k2
    /\ {OpSymbol(k) : k \in BassertKinds} = CmpOps \cup {"="}
    /\ (IsBassert /\ IsCmp /\ pc # "build_error") =>
         /\ OpSymbol(Expansion.kind) = call.op
         /\ cond # "unknown" => (cond = "true" <=> Rel(call.op, lhsVal.n, rhsVal.n))
         /\ pc = "panicked" =>
              panicMsg[2] = call.lhs.src \o " " \o call.op \o " " \o call.rhs.src

C9_Witness ==
    /\ IsBassert /\ pc = "panicked" /\ call.op = "<="
    /\ lhsVal = IntV(42) /\ rhsVal = IntV(3)

\* C10: within one comparison-form bassert! the left operand is evaluated
\* first, then the right operand, then the comparison is made, and only then,
\* on failure, are the custom-message arguments evaluated; the left operand's
\* side effect is visible to the right operand's evaluation and both are
\* visible to the message arguments, never the reverse.
C10_EvaluationOrder ==
    (IsBassert /\ IsCmp) =>
    /\ evals.rhs > 0 => evals.lhs > 0
    /\ cond # "unknown" => (evals.lhs > 0 /\ evals.rhs > 0)
    /\ evals.args > 0 => cond = "false"
    /\ panicMsg # NoText => (cond = "false" /\ (HasArgs(call) => evals.args > 0))
    /\ (call.lhs.kind = "probe" /\ evals.lhs > 0) => lhsVal = IntV(ctr0 + 1)
    /\ (call.rhs.kind = "probe" /\ evals.rhs > 0) =>
         rhsVal = IntV(ctr0 + 1 + (IF call.lhs.kind = "probe" THEN 1 ELSE 0))
    /\ (call.msg = MsgProbe /\ evals.args > 0) =>
         args = SomeArgs(Lit("seen " \o Digit[ctr0 + ProbeOperands + 2] \o " so far"))

C10_Witness ==
    /\ IsBassert /\ IsCmp /\ pc = "panicked" /\ call.msg = MsgProbe
    /\ call.lhs.kind = "probe" /\ call.rhs.kind = "probe"
    /\ lhsVal = IntV(ctr0 + 1) /\ rhsVal = IntV(ctr0 + 2) /\ ctr = ctr0 + 3

====
